---- MODULE Spec2Model ----
(***************************************************************************)
(* A model of the plane tracker's ingest core:                             *)
(*   - the tile poller and its scheduler (backend-lib/global-poller.ts),   *)
(*   - the position store (positions-db: insertPositions,                  *)
(*     pruneOldPositions, queryLatestInBbox, queryTrail,                   *)
(*     getPositionsDbStats),                                               *)
(*   - the sighting aggregator (sightings-db: upsertSightings).            *)
(*                                                                         *)
(* Three specifications share the variables:                               *)
(*   Spec           the scheduler, the poll cycle and the store it writes; *)
(*   SpecStore      the store's operations called directly with any rows;  *)
(*   SpecSightings  upsertSightings called with batches as time passes.    *)
(*                                                                         *)
(* Encoding of JavaScript / SQL values:                                    *)
(*   Null     stands for a null or undefined number,                       *)
(*   NullStr  for a null or undefined string,                              *)
(*   NumHex   for a `hex` property that holds a number, not a string,      *)
(*   a callsign is a sequence of one-character strings, NullCs when null.  *)
(***************************************************************************)
EXTENDS Integers, Sequences, FiniteSets, TLC

VARIABLES
    now,          \* Math.floor(Date.now() / 1000)
    pollerTimer,  \* global-poller.ts:19  TRUE iff the variable holds a timer handle
    timers,       \* the number of interval timers that are armed (set and not cleared)
    isPolling,    \* global-poller.ts:20  the in-flight flag
    cycle,        \* the pollOnce invocations suspended at the await of line 43:
                  \*   id -> [res: tile -> fetch state, order: tiles in completion order]
    calls,        \* number of poll cycles started so far (pollOnce past its guard)
    db,           \* the positions table, rows in rowid order
    sightings,    \* the sightings table, rows in id order (row k has id k)
    observed,     \* for each sightings row, the non-null altitudes and speeds
                  \*   of the observations that created or updated it
    op,           \* the step taken last
    pre,          \* the positions table before that step
    res,          \* finish: how the fetch of each tile of the cycle settled, in tile order
    batch,        \* finish: the positions array built at lines 66-82;
                  \*   insert, upsert: the array passed to the call
    outcome,      \* how the step ended
    arg,          \* store operations: the arguments of the call
    ret           \* store queries: the rows returned

vars == <<now, pollerTimer, timers, isPolling, cycle, calls, db, sightings, observed,
          op, pre, res, batch, outcome, arg, ret>>

----------------------------------------------------------------------------
(* Values *)

Null == -1000000
NullStr == "<null>"
NumHex == "<number>"
NullCs == <<NullStr>>

\* SQLite BINARY collation on the identities the model uses.
Alphabet == <<"A", "B", "a", "b">>

Rank(s) == CHOOSE i \in 1..Len(Alphabet) : Alphabet[i] = s

\* String.prototype.toLowerCase
ToLowerCase(s) ==
    CASE s = "A" -> "a"
      [] s = "B" -> "b"
      [] OTHER -> s

RECURSIVE TrimStart(_)
TrimStart(cs) ==
    IF cs # <<>> /\ Head(cs) = " " THEN TrimStart(Tail(cs)) ELSE cs

RECURSIVE TrimEnd(_)
TrimEnd(cs) ==
    IF cs # <<>> /\ cs[Len(cs)] = " " THEN TrimEnd(SubSeq(cs, 1, Len(cs) - 1)) ELSE cs

\* String.prototype.trim
Trim(cs) == TrimEnd(TrimStart(cs))

\* a ?? b
Coalesce(a, b) == IF a # Null THEN a ELSE b

----------------------------------------------------------------------------
(* The position store *)

RETENTION_SECONDS == 86400
DEFAULT_MAX_AGE_SECS == 180

\* The NOT NULL columns of the positions table.
NotNullOK(p) ==
    /\ p.icao24 # NullStr
    /\ p.lat # Null
    /\ p.lon # Null
    /\ p.ts # Null

\* The body of the transaction of insertPositions: insertStmt.run on each row in
\* turn. A run throws on a NOT NULL violation, and at row failAt when the
\* storage itself fails there (failAt = 0: no such failure). The rows written
\* before the throw are in `table`.
RECURSIVE TxnBody(_, _, _, _)
TxnBody(table, positions, k, failAt) ==
    IF k > Len(positions) THEN [thrown |-> FALSE, table |-> table]
    ELSE IF k = failAt \/ ~NotNullOK(positions[k]) THEN [thrown |-> TRUE, table |-> table]
    ELSE TxnBody(Append(table, positions[k]), positions, k + 1, failAt)

\* The rows stay written when the transaction body throws.
InsertPositions_NoRollback(table, positions, failAt) ==
    TxnBody(table, positions, 1, failAt)

\* INSERT OR REPLACE on icao24: a row of the batch replaces the stored rows of
\* its aircraft.
InsertPositions_Replace(table, positions, failAt) ==
    LET kept == SelectSeq(table, LAMBDA r : \A k \in 1..Len(positions) : positions[k].icao24 # r.icao24)
        r == TxnBody(kept, positions, 1, failAt)
    IN  IF r.thrown THEN [thrown |-> TRUE, table |-> table] ELSE r

\* insertPositions: db.transaction commits when the body returns and rolls back
\* when it throws, and rethrows.
InsertPositions(table, positions, failAt) ==
    LET r == TxnBody(table, positions, 1, failAt)
    IN  IF r.thrown THEN [thrown |-> TRUE, table |-> table] ELSE r

\* Deletes the records at the cutoff too.
PruneOldPositions_Inclusive(table, maxAgeSeconds, t) ==
    SelectSeq(table, LAMBDA r : ~(r.ts <= t - maxAgeSeconds))

\* pruneOldPositions: DELETE FROM positions WHERE ts < cutoff
PruneOldPositions(table, maxAgeSeconds, t) ==
    LET cutoff == t - maxAgeSeconds
    IN  SelectSeq(table, LAMBDA r : ~(r.ts < cutoff))

Between(x, lo, hi) == lo <= x /\ x <= hi

SetMax(S) == CHOOSE m \in S : \A x \in S : x <= m

\* ORDER BY icao24: the rows in ascending order of icao24, rows of equal icao24
\* in the order they have in `rows`.
RECURSIVE OrderByIcao(_)
OrderByIcao(rows) ==
    IF rows = <<>> THEN <<>>
    ELSE LET m == CHOOSE i \in 1..Len(rows) :
                    /\ \A j \in 1..Len(rows) : Rank(rows[i].icao24) <= Rank(rows[j].icao24)
                    /\ \A j \in 1..(i - 1) : rows[j].icao24 # rows[i].icao24
             rest == [j \in 1..(Len(rows) - 1) |-> IF j < m THEN rows[j] ELSE rows[j + 1]]
         IN  <<rows[m]>> \o OrderByIcao(rest)

SetMin(S) == CHOOSE m \in S : \A x \in S : m <= x

\* MIN(ts) in the place of MAX(ts).
LatestGroups_Min(table, lamin, lamax, lomin, lomax, minTs) ==
    LET inWin == {i \in 1..Len(table) :
                    /\ Between(table[i].lat, lamin, lamax)
                    /\ Between(table[i].lon, lomin, lomax)
                    /\ table[i].ts >= minTs}
        ids == {table[i].icao24 : i \in inWin}
    IN  {[icao24 |-> a, max_ts |-> SetMin({table[i].ts : i \in {j \in inWin : table[j].icao24 = a}})]
            : a \in ids}

\* The subquery `latest` of queryLatestInBbox: the rows inside the box and the
\* age window, grouped by icao24, each group with its MAX(ts).
LatestGroups(table, lamin, lamax, lomin, lomax, minTs) ==
    LET inWin == {i \in 1..Len(table) :
                    /\ Between(table[i].lat, lamin, lamax)
                    /\ Between(table[i].lon, lomin, lomax)
                    /\ table[i].ts >= minTs}
        ids == {table[i].icao24 : i \in inWin}
    IN  {[icao24 |-> a, max_ts |-> SetMax({table[i].ts : i \in {j \in inWin : table[j].icao24 = a}})]
            : a \in ids}

\* queryLatestInBbox: positions p INNER JOIN latest ON p.icao24 = latest.icao24
\* AND p.ts = latest.max_ts ORDER BY p.icao24.
QueryLatestInBbox(table, lamin, lamax, lomin, lomax, maxAgeSecs, t) ==
    LET minTs == t - maxAgeSecs
        latest == LatestGroups(table, lamin, lamax, lomin, lomax, minTs)
        joined == SelectSeq(table, LAMBDA p :
                    \E g \in latest : p.icao24 = g.icao24 /\ p.ts = g.max_ts)
    IN  OrderByIcao(joined)

TRAIL_DEFAULT_SECS == 86400

\* The columns queryTrail selects.
TrailPoint(p) == [lat |-> p.lat, lon |-> p.lon, alt |-> p.alt, ts |-> p.ts]

\* ORDER BY ts ASC: the rows in ascending order of ts, rows of equal ts in the
\* order they have in `rows`.
RECURSIVE OrderByTs(_)
OrderByTs(rows) ==
    IF rows = <<>> THEN <<>>
    ELSE LET m == CHOOSE i \in 1..Len(rows) :
                    /\ \A j \in 1..Len(rows) : rows[i].ts <= rows[j].ts
                    /\ \A j \in 1..(i - 1) : rows[j].ts # rows[i].ts
             rest == [j \in 1..(Len(rows) - 1) |-> IF j < m THEN rows[j] ELSE rows[j + 1]]
         IN  <<rows[m]>> \o OrderByTs(rest)

\* The rows come in rowid order.
QueryTrail_Unordered(table, icao24, sinceTs, t) ==
    LET cutoff == Coalesce(sinceTs, t - TRAIL_DEFAULT_SECS)
        sel == SelectSeq(table, LAMBDA p : p.icao24 = icao24 /\ p.ts >= cutoff)
    IN  [k \in 1..Len(sel) |-> TrailPoint(sel[k])]

\* queryTrail: SELECT lat, lon, alt, ts FROM positions WHERE icao24 = ? AND
\* ts >= cutoff ORDER BY ts ASC, the cutoff being sinceTs ?? now - 86400.
QueryTrail(table, icao24, sinceTs, t) ==
    LET cutoff == Coalesce(sinceTs, t - TRAIL_DEFAULT_SECS)
        sel == SelectSeq(table, LAMBDA p : p.icao24 = icao24 /\ p.ts >= cutoff)
        ord == OrderByTs(sel)
    IN  [k \in 1..Len(ord) |-> TrailPoint(ord[k])]

\* getPositionsDbStats: COUNT(*) and MIN(ts), the latter null on an empty table.
GetPositionsDbStats(table) ==
    [rowCount |-> Len(table),
     oldestTs |-> IF table = <<>> THEN Null ELSE SetMin({table[k].ts : k \in 1..Len(table)})]

----------------------------------------------------------------------------
(* The tile poller *)

\* The tile list. The program has 8 tiles (tenths of a degree here); the model
\* polls the first two, which overlap.
CONUS_TILES == <<[lat |-> 475, lon |-> -1225], [lat |-> 475, lon |-> -1100]>>
NTiles == Len(CONUS_TILES)
Tiles == 1..NTiles

\* A raw aircraft object of the feed (one element of data.ac). seen_pos is the
\* source's own statement of the age of the position, in seconds.
Ac(hex, flight, lat, lon, alt_baro, alt_geom, gs, seen_pos) ==
    [t |-> "obj", hex |-> hex, flight |-> flight, lat |-> lat, lon |-> lon,
     alt_baro |-> alt_baro, alt_geom |-> alt_geom, gs |-> gs, track |-> Null,
     baro_rate |-> Null, geom_rate |-> Null, squawk |-> NullStr, seen_pos |-> seen_pos]

\* A null in the place of an aircraft object.
NullElem == [Ac(NullStr, NullCs, Null, Null, Null, Null, Null, Null) EXCEPT !.t = "null"]

\* The aircraft objects of the model's feed: "a" on the ground, the same
\* aircraft as "A" with other field values, "a" without a latitude, "b" at
\* latitude and longitude 0, an object whose hex is a number, and one whose
\* hex is the empty string.
A1 == Ac("a", <<"U", "1", " ">>, 10, 10, 100, Null, 3, 2)
A2 == Ac("A", <<" ">>, 10, 10, Null, 200, 400, 2)
A3 == Ac("a", NullCs, Null, 10, 300, Null, Null, 2)
B1 == Ac("b", NullCs, 0, 0, Null, Null, Null, 7)
N1 == Ac(NumHex, NullCs, 10, 10, Null, Null, Null, 2)
E1 == Ac("", NullCs, 10, 10, Null, Null, Null, 2)

\* The data.ac lists a 2xx response may carry.
Payloads ==
    { <<>>, <<A1>>, <<A2>>, <<E1, A3>>, <<B1, A1>>, <<N1>>, <<NullElem>> }

\* What the network hands to fetchTile:
\*   "net"   fetch() rejects: network error, or the 15 s AbortSignal timeout;
\*   "http"  a response with res.ok false;
\*   "json"  a 2xx response whose body is not valid JSON (res.json() rejects);
\*   "ok"    a 2xx response with a JSON body: hasList tells that data.ac is a
\*           list, truthy that it is truthy (a missing data.ac is neither, an
\*           object or a number in its place is truthy).
Responses ==
    { [kind |-> k, hasList |-> FALSE, truthy |-> FALSE, ac |-> <<>>] : k \in {"net", "http", "json"} }
    \cup { [kind |-> "ok", hasList |-> FALSE, truthy |-> tr, ac |-> <<>>] : tr \in BOOLEAN }
    \cup { [kind |-> "ok", hasList |-> TRUE, truthy |-> TRUE, ac |-> l] : l \in Payloads }

\* The state of one tile's promise: pending, rejected, or fulfilled with a
\* value (`iterable` tells whether for..of can iterate it).
Pending == [status |-> "pending", iterable |-> TRUE, value |-> <<>>]
Rejected == [status |-> "rejected", iterable |-> TRUE, value |-> <<>>]
Fulfilled(iterable, value) == [status |-> "fulfilled", iterable |-> iterable, value |-> value]

\* fetchTile: how the promise of one tile settles on response r.
FetchTile(r) ==
    CASE r.kind \in {"net", "json"} -> Rejected
      [] r.kind = "http" -> Fulfilled(TRUE, <<>>)
      [] OTHER ->
            \* return data.ac || []
            IF r.truthy THEN Fulfilled(r.hasList, r.ac) ELSE Fulfilled(TRUE, <<>>)

\* The results come in the order the fetches completed.
AllSettled_ByCompletion(cy) ==
    [thrown |-> FALSE, results |-> [k \in 1..NTiles |-> cy.res[cy.order[k]]]]

\* Promise.all: rejects as soon as one tile rejects.
AllSettled_All(cy) ==
    [thrown |-> \E i \in Tiles : cy.res[i].status = "rejected",
     results |-> [i \in 1..NTiles |-> cy.res[i]]]

\* await Promise.allSettled(CONUS_TILES.map(fetchTile)): never rejects, and the
\* results are in the order of CONUS_TILES.
AllSettled(cy) ==
    [thrown |-> FALSE, results |-> [i \in 1..NTiles |-> cy.res[i]]]

\* Only the identity is tested.
Dropped_IdentityOnly(ac) == ac.hex \in {NullStr, ""}

\* !ac.hex || ac.lat == null || ac.lon == null
Dropped(ac) == ac.hex \in {NullStr, ""} \/ ac.lat = Null \/ ac.lon = Null

HasKey(seen, k) == \E i \in 1..Len(seen) : seen[i].icao24 = k

\* The identity is claimed before the latitude and longitude are tested: an
\* observation without them takes the identity's place in the Map.
RECURSIVE MergeTile_ClaimBeforeDrop(_, _, _)
MergeTile_ClaimBeforeDrop(seen, value, j) ==
    IF j > Len(value) THEN [thrown |-> FALSE, seen |-> seen]
    ELSE LET ac == value[j]
         IN  IF ac.t = "null" THEN [thrown |-> TRUE, seen |-> seen]
             ELSE IF ac.hex \in {NullStr, ""} THEN MergeTile_ClaimBeforeDrop(seen, value, j + 1)
             ELSE IF ac.hex = NumHex THEN [thrown |-> TRUE, seen |-> seen]
             ELSE LET icao24 == ToLowerCase(ac.hex)
                  IN  IF HasKey(seen, icao24)
                      THEN MergeTile_ClaimBeforeDrop(seen, value, j + 1)
                      ELSE MergeTile_ClaimBeforeDrop(Append(seen, [icao24 |-> icao24, ac |-> ac]),
                                                     value, j + 1)

\* The inner loop of lines 56-62 over one tile's value, from element j on.
RECURSIVE MergeTile(_, _, _)
MergeTile(seen, value, j) ==
    IF j > Len(value) THEN [thrown |-> FALSE, seen |-> seen]
    ELSE LET ac == value[j]
         IN  IF ac.t = "null" THEN [thrown |-> TRUE, seen |-> seen]
             ELSE IF Dropped(ac) THEN MergeTile(seen, value, j + 1)
             ELSE IF ac.hex = NumHex THEN [thrown |-> TRUE, seen |-> seen]
             ELSE LET icao24 == ToLowerCase(ac.hex)
                  IN  IF HasKey(seen, icao24)
                      THEN MergeTile(seen, value, j + 1)
                      ELSE MergeTile(Append(seen, [icao24 |-> icao24, ac |-> ac]), value, j + 1)

\* The loop of lines 50-63 over the results, from result i on. `seen` is the
\* Map in insertion order.
RECURSIVE Merge(_, _, _)
Merge(seen, results, i) ==
    IF i > Len(results) THEN [thrown |-> FALSE, seen |-> seen]
    ELSE IF results[i].status = "rejected" THEN Merge(seen, results, i + 1)
    ELSE IF ~results[i].iterable THEN [thrown |-> TRUE, seen |-> seen]
    ELSE LET m == MergeTile(seen, results[i].value, 1)
         IN  IF m.thrown THEN m ELSE Merge(m.seen, results, i + 1)

\* (ac.flight?.trim()) || null
Callsign(flight) ==
    IF flight = NullCs THEN NullCs
    ELSE IF Trim(flight) = <<>> THEN NullCs ELSE Trim(flight)

\* The record carries the time the source saw the position.
PositionRow_SourceTs(icao24, ac, ts) ==
    [icao24 |-> icao24,
     callsign |-> Callsign(ac.flight),
     lat |-> ac.lat,
     lon |-> ac.lon,
     alt |-> Coalesce(ac.alt_baro, Coalesce(ac.alt_geom, Null)),
     speed |-> Coalesce(ac.gs, Null),
     heading |-> Coalesce(ac.track, Null),
     vrate |-> Coalesce(ac.baro_rate, Coalesce(ac.geom_rate, Null)),
     squawk |-> ac.squawk,
     on_ground |-> IF ac.gs # Null /\ ac.gs < 5 THEN 1 ELSE 0,
     ts |-> ts - ac.seen_pos]

\* One element of `positions` (lines 69-81).
PositionRow(icao24, ac, ts) ==
    [icao24 |-> icao24,
     callsign |-> Callsign(ac.flight),
     lat |-> ac.lat,
     lon |-> ac.lon,
     alt |-> Coalesce(ac.alt_baro, Coalesce(ac.alt_geom, Null)),
     speed |-> Coalesce(ac.gs, Null),
     heading |-> Coalesce(ac.track, Null),
     vrate |-> Coalesce(ac.baro_rate, Coalesce(ac.geom_rate, Null)),
     squawk |-> ac.squawk,
     on_ground |-> IF ac.gs # Null /\ ac.gs < 5 THEN 1 ELSE 0,
     ts |-> ts]

BuildPositions(seen, ts) == [k \in 1..Len(seen) |-> PositionRow(seen[k].icao24, seen[k].ac, ts)]

\* The try block of pollOnce from the await on (lines 43-93), run at time t on
\* the table `table`. failAt and pruneFails are the storage failures of this
\* run: insertStmt.run throws at row failAt (0: never), the DELETE throws.
\* `outcome` tells where the block ended:
\*   "complete"      it reached the log line of line 90;
\*   "merge_error", "insert_error", "prune_error"   it threw there, and the
\*                   catch of line 94 logged it.
PollBody(cy, table, t, failAt, pruneFails) ==
    LET s == AllSettled(cy)
        m == Merge(<<>>, s.results, 1)
        positions == BuildPositions(m.seen, t)
        ins == IF Len(positions) > 0
               THEN InsertPositions(table, positions, failAt)
               ELSE [thrown |-> FALSE, table |-> table]
    IN  IF s.thrown \/ m.thrown
        THEN [outcome |-> "merge_error", table |-> table, results |-> s.results, batch |-> <<>>]
        ELSE IF ins.thrown
        THEN [outcome |-> "insert_error", table |-> ins.table, results |-> s.results, batch |-> positions]
        ELSE IF pruneFails
        THEN [outcome |-> "prune_error", table |-> ins.table, results |-> s.results, batch |-> positions]
        ELSE [outcome |-> "complete",
              table |-> PruneOldPositions(ins.table, RETENTION_SECONDS, t),
              results |-> s.results, batch |-> positions]

\* The flag is cleared only when the cycle completes.
FlagAfter_OnSuccess(out) == out # "complete"

\* The flag is not cleared when the merge throws.
FlagAfter_NoFinally(out) == out = "merge_error"

\* finally { isPolling = false }
FlagAfter(out) == FALSE

----------------------------------------------------------------------------
(* The scheduler *)

\* At most MaxCalls poll cycles are started.
MaxCalls == 2

\* The clock starts at Now0 and runs for at most Horizon seconds.
Now0 == 200000
Horizon == 90000
Deltas == {90000}

NoArg == [lamin |-> 0, lamax |-> 0, lomin |-> 0, lomax |-> 0, maxAge |-> 0,
          icao24 |-> NullStr, sinceTs |-> Null]

Ghost(o, out, before, results, positions) ==
    /\ op' = o
    /\ outcome' = out
    /\ pre' = before
    /\ res' = results
    /\ batch' = positions
    /\ arg' = NoArg
    /\ ret' = <<>>

NewCycle == [res |-> [i \in Tiles |-> Pending], order |-> <<>>]

\* The id of the next cycle: the smallest one not in flight.
FreeId == CHOOSE c \in 1..(MaxCalls + 1) : c \notin DOMAIN cycle /\ \A k \in 1..(c - 1) : k \in DOMAIN cycle

\* Every invocation starts a cycle.
PollOnce_NoGuard(o) ==
    /\ calls < MaxCalls
    /\ calls' = calls + 1
    /\ isPolling' = TRUE
    /\ cycle' = cycle @@ (FreeId :> NewCycle)
    /\ Ghost(o, "started", db, <<>>, <<>>)

\* pollOnce up to its await (lines 33-45), invoked by step o: the guard, the
\* flag, and one fetchTile call per tile.
PollOnce(o) ==
    IF isPolling
    THEN /\ UNCHANGED <<isPolling, cycle, calls>>
         /\ Ghost(o, "skipped", db, <<>>, <<>>)
    ELSE /\ calls < MaxCalls
         /\ calls' = calls + 1
         /\ isPolling' = TRUE
         /\ cycle' = cycle @@ (FreeId :> NewCycle)
         /\ Ghost(o, "started", db, <<>>, <<>>)

\* Every call polls and sets an interval timer.
StartGlobalPoller_NoGuard ==
    /\ PollOnce("start")
    /\ pollerTimer' = TRUE
    /\ timers' = timers + 1
    /\ UNCHANGED <<now, db, sightings, observed>>

\* startGlobalPoller
StartGlobalPoller ==
    IF pollerTimer
    THEN /\ Ghost("start", "already", db, <<>>, <<>>)
         /\ UNCHANGED <<now, pollerTimer, timers, isPolling, cycle, calls, db, sightings, observed>>
    ELSE /\ PollOnce("start")
         /\ pollerTimer' = TRUE
         /\ timers' = timers + 1
         /\ UNCHANGED <<now, db, sightings, observed>>

\* The handle is dropped, the interval timer is not cleared.
StopGlobalPoller_NoClear ==
    /\ pollerTimer' = FALSE
    /\ timers' = timers
    /\ Ghost("stop", IF pollerTimer THEN "stopped" ELSE "idle", db, <<>>, <<>>)
    /\ UNCHANGED <<now, isPolling, cycle, calls, db, sightings, observed>>

\* stopGlobalPoller
StopGlobalPoller ==
    /\ pollerTimer' = FALSE
    /\ timers' = IF pollerTimer THEN timers - 1 ELSE timers
    /\ Ghost("stop", IF pollerTimer THEN "stopped" ELSE "idle", db, <<>>, <<>>)
    /\ UNCHANGED <<now, isPolling, cycle, calls, db, sightings, observed>>

\* The setInterval callback of line 111: an armed interval timer fires.
TimerTick ==
    /\ timers > 0
    /\ PollOnce("tick")
    /\ UNCHANGED <<now, pollerTimer, timers, db, sightings, observed>>

\* The fetch of tile i of cycle c settles on response r.
TileSettle(c, i, r) ==
    /\ c \in DOMAIN cycle
    /\ cycle[c].res[i].status = "pending"
    /\ cycle' = [cycle EXCEPT ![c].res[i] = FetchTile(r), ![c].order = Append(@, i)]
    /\ Ghost("none", "none", db, <<>>, <<>>)
    /\ UNCHANGED <<now, pollerTimer, timers, isPolling, calls, db, sightings, observed>>

\* The continuation does not wait for the tiles that are still pending.
CycleFinish_NoWait(c, failAt, pruneFails) ==
    /\ c \in DOMAIN cycle
    /\ failAt <= Len(PollBody(cycle[c], db, now, 0, FALSE).batch)
    /\ LET b == PollBody(cycle[c], db, now, failAt, pruneFails)
       IN  /\ db' = b.table
           /\ isPolling' = FlagAfter(b.outcome)
           /\ Ghost("finish", b.outcome, db, cycle[c].res, b.batch)
    /\ cycle' = [k \in DOMAIN cycle \ {c} |-> cycle[k]]
    /\ UNCHANGED <<now, pollerTimer, timers, calls, sightings, observed>>

\* pollOnce from the await on, once every tile of cycle c has settled.
CycleFinish(c, failAt, pruneFails) ==
    /\ c \in DOMAIN cycle
    /\ \A i \in Tiles : cycle[c].res[i].status # "pending"
    /\ failAt <= Len(PollBody(cycle[c], db, now, 0, FALSE).batch)
    /\ LET b == PollBody(cycle[c], db, now, failAt, pruneFails)
       IN  /\ db' = b.table
           /\ isPolling' = FlagAfter(b.outcome)
           /\ Ghost("finish", b.outcome, db, cycle[c].res, b.batch)
    /\ cycle' = [k \in DOMAIN cycle \ {c} |-> cycle[k]]
    /\ UNCHANGED <<now, pollerTimer, timers, calls, sightings, observed>>

\* Time passes.
Advance(d) ==
    /\ now + d <= Now0 + Horizon
    /\ now' = now + d
    /\ Ghost("none", "none", db, <<>>, <<>>)
    /\ UNCHANGED <<pollerTimer, timers, isPolling, cycle, calls, db, sightings, observed>>

\* The longest batch a cycle can build: one row per identity of the feed.
MaxFail == Cardinality(UNION {{ToLowerCase(l[j].hex) : j \in 1..Len(l)} : l \in Payloads} \ {NullStr, NumHex})

Init ==
    /\ now = Now0
    /\ pollerTimer = FALSE
    /\ timers = 0
    /\ isPolling = FALSE
    /\ cycle = <<>>
    /\ calls = 0
    /\ db = <<>>
    /\ sightings = <<>>
    /\ observed = <<>>
    /\ op = "init"
    /\ outcome = "none"
    /\ pre = <<>>
    /\ res = <<>>
    /\ batch = <<>>
    /\ arg = NoArg
    /\ ret = <<>>

Next ==
    \/ StartGlobalPoller
    \/ StopGlobalPoller
    \/ TimerTick
    \/ \E c \in 1..MaxCalls, i \in Tiles, r \in Responses : TileSettle(c, i, r)
    \/ \E c \in 1..MaxCalls, failAt \in 0..MaxFail, pruneFails \in BOOLEAN : CycleFinish(c, failAt, pruneFails)
    \/ \E d \in Deltas : Advance(d)

Spec == Init /\ [][Next]_vars

\* The responses of the specification with fairness: a network error, a
\* non-success status, a list with an aircraft, and a list with a null in it.
LiveResponses ==
    { r \in Responses : r.kind \in {"net", "http"} \/ (r.hasList /\ r.ac \in {<<A1>>, <<NullElem>>}) }

\* A pending fetch settles.
SettleSome == \E c \in 1..MaxCalls, i \in Tiles, r \in LiveResponses : TileSettle(c, i, r)

\* A cycle whose fetches have all settled runs on from its await.
FinishSome ==
    \E c \in 1..MaxCalls, failAt \in 0..MaxFail, pruneFails \in BOOLEAN : CycleFinish(c, failAt, pruneFails)

NextLive ==
    \/ StartGlobalPoller
    \/ StopGlobalPoller
    \/ TimerTick
    \/ SettleSome
    \/ FinishSome
    \/ \E d \in Deltas : Advance(d)

\* FinishSome is enabled exactly when the fetches of a cycle in flight have all
\* settled.
FinishReady ==
    \E c \in DOMAIN cycle : \A i \in Tiles : cycle[c].res[i].status # "pending"

\* Every pending fetch settles in the end (at the latest by its 15 s timeout),
\* and the event loop resumes a cycle whose fetches have all settled: weak
\* fairness of SettleSome and of FinishSome, the latter with its enabling
\* condition written out.
Fairness ==
    /\ WF_vars(SettleSome)
    /\ ([]<>(~FinishReady) \/ []<><<FinishSome>>_vars)

SpecLive == Init /\ [][NextLive]_vars /\ Fairness

----------------------------------------------------------------------------
(* The store's operations, called directly *)

\* The table holds at most MaxRows rows, a batch at most MaxBatch.
MaxRows == 3
MaxBatch == 2

\* A row as a caller of insertPositions passes it.
Row(icao24, lat, lon, ts) ==
    [icao24 |-> icao24, callsign |-> NullCs, lat |-> lat, lon |-> lon, alt |-> Null,
     speed |-> Null, heading |-> Null, vrate |-> Null, squawk |-> NullStr,
     on_ground |-> 0, ts |-> ts]

\* The ages of the rows a caller inserts: older than the retention, at its
\* cutoff, at the edge of an age window of 1000 s, and new.
Ages == {90000, RETENTION_SECONDS, 1000, 0}

\* The rows a caller inserts at time t: aircraft "b" at (10, 10) at every age
\* and new at (50, 10), aircraft "a" new at (10, 10), and a row without its
\* identity.
InputRows(t) ==
    { Row("b", 10, 10, t - age) : age \in Ages }
    \cup { Row("b", 50, 10, t), Row("a", 10, 10, t), Row(NullStr, 10, 10, t) }

Boxes == { [lamin |-> 0, lamax |-> 20, lomin |-> 0, lomax |-> 20],
           [lamin |-> 0, lamax |-> 60, lomin |-> 0, lomax |-> 60] }

QueryAges == {DEFAULT_MAX_AGE_SECS, 1000}

Min(x, y) == IF x <= y THEN x ELSE y

\* insertPositions(positions), the storage failing at row failAt (0: not at all).
InsertCall(positions, failAt) ==
    /\ LET r == InsertPositions(db, positions, failAt)
       IN  /\ db' = r.table
           /\ op' = "insert"
           /\ outcome' = IF r.thrown THEN "thrown" ELSE "ok"
    /\ pre' = db
    /\ batch' = positions
    /\ res' = <<>>
    /\ arg' = NoArg
    /\ ret' = <<>>
    /\ UNCHANGED <<now, pollerTimer, timers, isPolling, cycle, calls, sightings, observed>>

\* pruneOldPositions(maxAgeSeconds)
PruneOp(maxAgeSeconds) ==
    /\ db' = PruneOldPositions(db, maxAgeSeconds, now)
    /\ op' = "prune"
    /\ outcome' = "ok"
    /\ pre' = db
    /\ batch' = <<>>
    /\ res' = <<>>
    /\ arg' = [NoArg EXCEPT !.maxAge = maxAgeSeconds]
    /\ ret' = <<>>
    /\ UNCHANGED <<now, pollerTimer, timers, isPolling, cycle, calls, sightings, observed>>

\* queryLatestInBbox(lamin, lamax, lomin, lomax, maxAgeSecs)
QueryLatestOp(box, maxAgeSecs) ==
    /\ ret' = QueryLatestInBbox(db, box.lamin, box.lamax, box.lomin, box.lomax, maxAgeSecs, now)
    /\ op' = "latest"
    /\ outcome' = "ok"
    /\ pre' = db
    /\ batch' = <<>>
    /\ res' = <<>>
    /\ arg' = [NoArg EXCEPT !.lamin = box.lamin, !.lamax = box.lamax, !.lomin = box.lomin,
                            !.lomax = box.lomax, !.maxAge = maxAgeSecs]
    /\ UNCHANGED <<now, pollerTimer, timers, isPolling, cycle, calls, db, sightings, observed>>

\* queryTrail(icao24, sinceTs); sinceTs = Null: the argument is left out.
QueryTrailOp(icao24, sinceTs) ==
    /\ ret' = QueryTrail(db, icao24, sinceTs, now)
    /\ op' = "trail"
    /\ outcome' = "ok"
    /\ pre' = db
    /\ batch' = <<>>
    /\ res' = <<>>
    /\ arg' = [NoArg EXCEPT !.icao24 = icao24, !.sinceTs = sinceTs]
    /\ UNCHANGED <<now, pollerTimer, timers, isPolling, cycle, calls, db, sightings, observed>>

\* getPositionsDbStats()
StatsOp ==
    /\ ret' = <<GetPositionsDbStats(db)>>
    /\ op' = "stats"
    /\ outcome' = "ok"
    /\ pre' = db
    /\ batch' = <<>>
    /\ res' = <<>>
    /\ arg' = NoArg
    /\ UNCHANGED <<now, pollerTimer, timers, isPolling, cycle, calls, db, sightings, observed>>

\* The sinceTs arguments of the model at time t: left out, and t - 1000.
SinceArgs(t) == {Null, t - 1000}

\* A caller inserts a batch that the table has room for.
InsertOp ==
    \E n \in 0..Min(MaxBatch, MaxRows - Len(db)) :
        \E positions \in [1..n -> InputRows(now)], failAt \in 0..n : InsertCall(positions, failAt)

NextStore ==
    \/ InsertOp
    \/ \E maxAgeSeconds \in {RETENTION_SECONDS, 1000} : PruneOp(maxAgeSeconds)
    \/ \E box \in Boxes, maxAgeSecs \in QueryAges : QueryLatestOp(box, maxAgeSecs)
    \/ \E icao24 \in {"a", "b"}, sinceTs \in SinceArgs(now) : QueryTrailOp(icao24, sinceTs)
    \/ StatsOp

SpecStore == Init /\ [][NextStore]_vars

----------------------------------------------------------------------------
(* The sighting aggregator *)

STALE_SECS == 600

\* A PlaneInput.
Plane(icao24, callsign, origin_country, alt, vel, lat, lon) ==
    [icao24 |-> icao24, callsign |-> callsign, origin_country |-> origin_country,
     alt |-> alt, vel |-> vel, lat |-> lat, lon |-> lon]

\* (plane.callsign || '').trim() || null
SightingCallsign(callsign) ==
    LET s == IF callsign = NullCs THEN <<>> ELSE callsign
    IN  IF Trim(s) = <<>> THEN NullCs ELSE Trim(s)

\* plane.origin_country || null
OriginCountry(origin_country) ==
    IF origin_country \in {NullStr, ""} THEN NullStr ELSE origin_country

\* A lookup that does not see the rows written at this instant.
FindByIcao_NotThisInstant(table, icao24, threshold) ==
    LET C == {k \in 1..Len(table) : /\ table[k].icao24 = icao24
                                     /\ table[k].last_seen > threshold
                                     /\ table[k].last_seen < threshold + 600}
    IN  IF icao24 = NullStr \/ C = {} THEN 0
        ELSE CHOOSE k \in C : \A j \in C :
                \/ table[j].last_seen < table[k].last_seen
                \/ (table[j].last_seen = table[k].last_seen /\ k <= j)

\* last_seen >= ? in the place of last_seen > ?.
FindByIcao_Inclusive(table, icao24, threshold) ==
    LET C == {k \in 1..Len(table) : table[k].icao24 = icao24 /\ table[k].last_seen >= threshold}
    IN  IF icao24 = NullStr \/ C = {} THEN 0
        ELSE CHOOSE k \in C : \A j \in C :
                \/ table[j].last_seen < table[k].last_seen
                \/ (table[j].last_seen = table[k].last_seen /\ k <= j)

\* The lookup takes a row for active only half as long.
FindByIcao_ShortWindow(table, icao24, threshold) ==
    LET C == {k \in 1..Len(table) : table[k].icao24 = icao24 /\ table[k].last_seen > threshold + 300}
    IN  IF icao24 = NullStr \/ C = {} THEN 0
        ELSE CHOOSE k \in C : \A j \in C :
                \/ table[j].last_seen < table[k].last_seen
                \/ (table[j].last_seen = table[k].last_seen /\ k <= j)

\* findByIcao.get(icao24, threshold): the id of the row WHERE icao24 = ? AND
\* last_seen > ? ORDER BY last_seen DESC LIMIT 1, 0 when there is none. A NULL
\* icao24 equals no row. Of rows with equal last_seen the first is taken.
FindByIcao(table, icao24, threshold) ==
    LET C == {k \in 1..Len(table) : table[k].icao24 = icao24 /\ table[k].last_seen > threshold}
    IN  IF icao24 = NullStr \/ C = {} THEN 0
        ELSE CHOOSE k \in C : \A j \in C :
                \/ table[j].last_seen < table[k].last_seen
                \/ (table[j].last_seen = table[k].last_seen /\ k <= j)

Max(x, y) == IF x >= y THEN x ELSE y

\* An observation without an altitude resets the lower bound.
MinAlt_NullResets(existing, plane) ==
    IF plane.alt # Null
    THEN (IF existing.min_alt # Null THEN Min(existing.min_alt, plane.alt) ELSE plane.alt)
    ELSE Null

\* minAlt, maxAlt, maxSpeed of lines 219-227.
MinAlt(existing, plane) ==
    IF plane.alt # Null
    THEN (IF existing.min_alt # Null THEN Min(existing.min_alt, plane.alt) ELSE plane.alt)
    ELSE existing.min_alt

MaxAlt(existing, plane) ==
    IF plane.alt # Null
    THEN (IF existing.max_alt # Null THEN Max(existing.max_alt, plane.alt) ELSE plane.alt)
    ELSE existing.max_alt

MaxSpeed(existing, plane) ==
    IF plane.vel # Null
    THEN (IF existing.max_speed # Null THEN Max(existing.max_speed, plane.vel) ELSE plane.vel)
    ELSE existing.max_speed

\* lat = COALESCE(?, lat), lon = COALESCE(?, lon) in the place of lat = ?, lon = ?.
UpdateRow_KeepPosition(existing, plane, t) ==
    [existing EXCEPT
        !.last_seen = t,
        !.callsign = IF SightingCallsign(plane.callsign) # NullCs
                     THEN SightingCallsign(plane.callsign) ELSE @,
        !.min_alt = MinAlt(existing, plane),
        !.max_alt = MaxAlt(existing, plane),
        !.max_speed = MaxSpeed(existing, plane),
        !.lat = Coalesce(plane.lat, @),
        !.lon = Coalesce(plane.lon, @)]

\* callsign = ? in the place of callsign = COALESCE(?, callsign).
UpdateRow_CallsignAlways(existing, plane, t) ==
    [existing EXCEPT
        !.last_seen = t,
        !.callsign = SightingCallsign(plane.callsign),
        !.min_alt = MinAlt(existing, plane),
        !.max_alt = MaxAlt(existing, plane),
        !.max_speed = MaxSpeed(existing, plane),
        !.lat = Coalesce(plane.lat, Null),
        !.lon = Coalesce(plane.lon, Null)]

\* An update that also sets origin_country from the observation.
UpdateRow_Country(existing, plane, t) ==
    [existing EXCEPT
        !.last_seen = t,
        !.callsign = IF SightingCallsign(plane.callsign) # NullCs
                     THEN SightingCallsign(plane.callsign) ELSE @,
        !.origin_country = OriginCountry(plane.origin_country),
        !.min_alt = MinAlt(existing, plane),
        !.max_alt = MaxAlt(existing, plane),
        !.max_speed = MaxSpeed(existing, plane),
        !.lat = Coalesce(plane.lat, Null),
        !.lon = Coalesce(plane.lon, Null)]

\* updateStmt.run(...) on the row `existing` (lines 198-202, 229-238).
UpdateRow(existing, plane, t) ==
    [existing EXCEPT
        !.last_seen = t,
        !.callsign = IF SightingCallsign(plane.callsign) # NullCs
                     THEN SightingCallsign(plane.callsign) ELSE @,
        !.min_alt = MinAlt(existing, plane),
        !.max_alt = MaxAlt(existing, plane),
        !.max_speed = MaxSpeed(existing, plane),
        !.lat = Coalesce(plane.lat, Null),
        !.lon = Coalesce(plane.lon, Null)]

\* The row upsertStmt.run(...) inserts (lines 187-191, 240-251).
NewRow(plane, t) ==
    [icao24 |-> plane.icao24,
     callsign |-> SightingCallsign(plane.callsign),
     origin_country |-> OriginCountry(plane.origin_country),
     first_seen |-> t,
     last_seen |-> t,
     min_alt |-> Coalesce(plane.alt, Null),
     max_alt |-> Coalesce(plane.alt, Null),
     max_speed |-> Coalesce(plane.vel, Null),
     lat |-> Coalesce(plane.lat, Null),
     lon |-> Coalesce(plane.lon, Null)]

\* The body of the transaction of upsertSightings (lines 210-253) from plane k
\* on, at time t. `hits` collects the id of the row each plane updated or
\* created. The INSERT throws on a row without icao24 (NOT NULL).
RECURSIVE UpsertBody(_, _, _, _, _)
UpsertBody(table, planes, k, t, hits) ==
    IF k > Len(planes) THEN [thrown |-> FALSE, table |-> table, hits |-> hits]
    ELSE LET plane == planes[k]
             staleThreshold == t - STALE_SECS
             existing == FindByIcao(table, plane.icao24, staleThreshold)
         IN  IF existing # 0
             THEN UpsertBody([table EXCEPT ![existing] = UpdateRow(@, plane, t)],
                             planes, k + 1, t, Append(hits, existing))
             ELSE IF plane.icao24 = NullStr
             THEN [thrown |-> TRUE, table |-> table, hits |-> hits]
             ELSE UpsertBody(Append(table, NewRow(plane, t)),
                             planes, k + 1, t, Append(hits, Len(table) + 1))

\* upsertSightings(planes) at time t: db.transaction commits when the body
\* returns and rolls back when it throws, and rethrows.
UpsertSightings(table, planes, t) ==
    LET r == UpsertBody(table, planes, 1, t, <<>>)
    IN  IF r.thrown THEN [thrown |-> TRUE, table |-> table, hits |-> <<>>] ELSE r

\* The record of what each row has observed, after the planes of a committed
\* batch went to the rows `hits`.
RECURSIVE Observe(_, _, _, _)
Observe(obs, planes, hits, k) ==
    IF k > Len(hits) THEN obs
    ELSE LET id == hits[k]
             o == IF id > Len(obs) THEN Append(obs, [alts |-> {}, vels |-> {}]) ELSE obs
             e == [alts |-> o[id].alts \cup ({planes[k].alt} \ {Null}),
                   vels |-> o[id].vels \cup ({planes[k].vel} \ {Null})]
         IN  Observe([o EXCEPT ![id] = e], planes, hits, k + 1)

\* The table holds at most MaxEpisodes rows.
MaxEpisodes == 2

\* The times of the calls, in seconds after Now0: the gaps between them are
\* below (200, 500), at (600) and above (800, 1100, 1300) the staleness window.
SightTimes == {0, 500, 1100, 1300}

\* The planes a caller passes: aircraft "a" with an altitude, with nothing but
\* a blank callsign, with a higher altitude and no callsign; aircraft "b" at
\* altitude, speed, latitude and longitude 0; a plane without icao24.
SA1 == Plane("a", <<"U">>, "US", 1000, 400, 10, 10)
SA2 == Plane("a", <<" ">>, "", Null, Null, Null, Null)
SA3 == Plane("a", NullCs, NullStr, 3000, 3, 10, 10)
SB1 == Plane("b", NullCs, NullStr, 0, 0, 0, 0)
SX == Plane(NullStr, <<"U">>, "US", 1000, 400, 10, 10)
PlaneInputs == {SA1, SA2, SA3, SB1, SX}

\* The batches a caller passes: none, one plane, and two planes: a plane
\* without icao24 after and before a plane with one, the same aircraft twice,
\* two aircraft.
Batches ==
    {<<>>} \cup {<<p>> : p \in PlaneInputs}
    \cup {<<SA1, SX>>, <<SX, SA1>>, <<SA1, SA3>>, <<SA2, SA3>>, <<SB1, SA1>>, <<SA3, SB1>>}

\* upsertSightings(planes)
UpsertCall(planes) ==
    /\ LET r == UpsertSightings(sightings, planes, now)
       IN  /\ Len(r.table) <= MaxEpisodes
           /\ sightings' = r.table
           /\ observed' = Observe(observed, planes, r.hits, 1)
           /\ outcome' = IF r.thrown THEN "thrown" ELSE "ok"
    /\ op' = "upsert"
    /\ pre' = <<>>
    /\ batch' = planes
    /\ res' = <<>>
    /\ arg' = NoArg
    /\ ret' = <<>>
    /\ UNCHANGED <<now, pollerTimer, timers, isPolling, cycle, calls, db>>

\* A caller (POST /api/sightings) passes a batch.
UpsertOp ==
    \E planes \in Batches : UpsertCall(planes)

\* Time passes between two calls, up to Now0 + t.
Elapse(t) ==
    /\ now < Now0 + t
    /\ now' = Now0 + t
    /\ Ghost("none", "none", <<>>, <<>>, <<>>)
    /\ UNCHANGED <<pollerTimer, timers, isPolling, cycle, calls, db, sightings, observed>>

NextSightings ==
    \/ UpsertOp
    \/ \E t \in SightTimes : Elapse(t)

SpecSightings == Init /\ [][NextSightings]_vars

----------------------------------------------------------------------------
(* Properties of the poller *)

\* The identities the feed of the model can report, in lower case.
FeedIds == {"a", "b"}

\* The storage failed during the cycle that finished last.
StorageError == outcome \in {"insert_error", "prune_error"}

\* A tile's fetch delivered a list.
Succeeded(r) == r.status = "fulfilled" /\ r.iterable

\* An element is an aircraft object whose identity is a non-empty string.
WellFormed(ac) == ac.t = "obj" /\ ac.hex \notin {NullStr, NumHex, ""}

\* The places <<tile, index>> where the settled results `results` hold an
\* observation of identity a; with `complete`, only those that have a latitude
\* and a longitude.
Occurrences(results, a, complete) ==
    { p \in Tiles \X (1..2) :
        /\ Succeeded(results[p[1]])
        /\ p[2] <= Len(results[p[1]].value)
        /\ LET ac == results[p[1]].value[p[2]]
           IN  /\ WellFormed(ac)
               /\ ToLowerCase(ac.hex) = a
               /\ complete => (ac.lat # Null /\ ac.lon # Null) }

\* The first place of P in tile order, then list order.
Earliest(P) ==
    CHOOSE p \in P : \A q \in P : p[1] < q[1] \/ (p[1] = q[1] /\ p[2] <= q[2])

RecordsOf(rows, a) == {k \in 1..Len(rows) : rows[k].icao24 = a}

\* The cycle that finished last called insertPositions with `batch`.
Handed == op = "finish" /\ outcome # "merge_error" /\ batch # <<>>

\* C1: at most one poll cycle is in flight in every reachable state, and a
\* pollOnce invoked while a cycle is in flight (from the timer or from
\* startGlobalPoller) leaves the cycles in flight as they are (it issues no
\* fetch and nothing is queued), the flag and the store unchanged.
C1_AtMostOneCycleInFlight ==
    /\ [](Cardinality(DOMAIN cycle) <= 1 /\ (cycle # <<>> => isPolling))
    /\ [][ (cycle # <<>> /\ (op' = "tick" \/ (op' = "start" /\ outcome' # "already")))
            => (outcome' = "skipped" /\ UNCHANGED <<cycle, isPolling, calls, db>>) ]_vars

C1_Witness ==
    /\ op = "tick"
    /\ outcome = "skipped"
    /\ \E c \in DOMAIN cycle : \E i \in Tiles : cycle[c].res[i].status = "pending"

\* C2 as stated: the batch handed to the store has at most one record per
\* identity, and for an identity that several tiles returned the record is the
\* one of the earliest of those tiles in the tile list.
C2_Original ==
    Handed =>
        \A a \in FeedIds :
            LET P == Occurrences(res, a, FALSE)
            IN  /\ Cardinality(RecordsOf(batch, a)) <= 1
                /\ (Cardinality({p[1] : p \in P}) >= 2 /\ RecordsOf(batch, a) # {})
                    => LET p == Earliest(P)
                       IN  \E k \in RecordsOf(batch, a) :
                              batch[k] = PositionRow(a, res[p[1]].value[p[2]], now)

\* C2, amended: whatever the order in which the fetches completed, the batch
\* handed to the store has exactly one record for every identity of which some
\* tile returned an observation with a latitude and a longitude, none for any
\* other identity, and that record is the one of the earliest such observation
\* in the order of the tile list: not a merge, and not the observation whose
\* fetch finished first.
C2_FirstCompleteOccurrenceWins ==
    Handed =>
        \A a \in FeedIds :
            LET P == Occurrences(res, a, TRUE)
            IN  IF P = {}
                THEN RecordsOf(batch, a) = {}
                ELSE /\ Cardinality(RecordsOf(batch, a)) = 1
                     /\ LET p == Earliest(P)
                        IN  \A k \in RecordsOf(batch, a) :
                               batch[k] = PositionRow(a, res[p[1]].value[p[2]], now)

C2_Witness ==
    /\ Handed
    /\ res[1].value = <<A1>>
    /\ res[2].value = <<A2>>
    /\ Len(batch) = 1
    /\ batch[1].alt = 100

\* C3: when a tile's fetch fails and another tile's fetch succeeds, the cycle
\* does not abort, and when it completes every observation of the succeeding
\* tiles that has a latitude and a longitude is in the store with the cycle's
\* timestamp.
C3_FailedTileDoesNotAbort ==
    (/\ op = "finish"
     /\ \E i \in Tiles : res[i].status = "rejected"
     /\ \E i \in Tiles : Succeeded(res[i]))
    => /\ outcome # "merge_error"
       /\ outcome = "complete" =>
            \A a \in FeedIds :
                Occurrences(res, a, TRUE) # {}
                    => \E k \in 1..Len(db) : db[k].icao24 = a /\ db[k].ts = now

\* A fulfilled tile whose payload is malformed: data.ac is no list, or the list
\* holds an element that is no aircraft object with a string identity. (A body
\* that is not valid JSON rejects the tile's promise.)
Malformed(r) ==
    /\ r.status = "fulfilled"
    /\ \/ ~r.iterable
       \/ \E j \in 1..Len(r.value) : r.value[j].t = "null" \/ r.value[j].hex = NumHex

\* The results with every malformed tile's payload replaced by the empty list.
WithoutMalformed(results) ==
    [i \in 1..Len(results) |-> IF Malformed(results[i]) THEN Fulfilled(TRUE, <<>>) ELSE results[i]]

\* C4: a malformed payload of one tile contributes no observation and does not
\* abort the cycle: unless the storage fails, the cycle completes, the batch is
\* the one the other tiles give, it is inserted, and pruning runs.
C4_MalformedPayloadDoesNotAbort ==
    (op = "finish" /\ \E i \in Tiles : Malformed(res[i]))
    => /\ outcome # "merge_error"
       /\ outcome = "complete" =>
            /\ batch = BuildPositions(Merge(<<>>, WithoutMalformed(res), 1).seen, now)
            /\ db = PruneOldPositions(pre \o batch, RETENTION_SECONDS, now)

\* Every tile of the cycle that finished last failed: its promise was rejected
\* (network error, timeout, invalid JSON) or resolved to the empty list (as it
\* does on a non-success HTTP status).
AllFailed ==
    /\ op = "finish"
    /\ \A i \in Tiles : res[i].status = "rejected" \/ (Succeeded(res[i]) /\ res[i].value = <<>>)

AllPending(cy) == \A i \in Tiles : cy.res[i] = Pending /\ cy.order = <<>>

\* C5: a cycle all of whose tiles failed inserts no record (no batch is built,
\* the store only loses what pruning removes), is not an error (it ends at its
\* completion log line unless the pruning itself throws), leaves the flag
\* cleared, and a timer tick that follows starts a cycle with every fetch
\* issued.
C5_AllTilesFailed ==
    /\ [](AllFailed =>
            /\ batch = <<>>
            /\ outcome \in {"complete", "prune_error"}
            /\ {db[k] : k \in 1..Len(db)} \subseteq {pre[k] : k \in 1..Len(pre)}
            /\ Len(db) <= Len(pre)
            /\ ~isPolling
            /\ cycle = <<>>)
    /\ [][ (AllFailed /\ op' = "tick")
            => (outcome' = "started" /\ isPolling'
                /\ Cardinality(DOMAIN cycle') = 1
                /\ \A c \in DOMAIN cycle' : AllPending(cycle'[c])) ]_vars

C5_Witness ==
    /\ AllFailed
    /\ \A i \in Tiles : res[i].status = "rejected"
    /\ outcome = "complete"
    /\ pollerTimer
    /\ calls < MaxCalls

\* C6: when insertPositions or pruneOldPositions throws in a cycle, the timer is
\* left as it was, the flag is cleared, and a timer tick that follows starts a
\* cycle of its own with every fetch issued.
C6_StorageFailureKeepsScheduling ==
    /\ []((op = "finish" /\ StorageError) => (~isPolling /\ cycle = <<>>))
    /\ [][ /\ (op' = "finish" /\ outcome' \in {"insert_error", "prune_error"})
                => pollerTimer' = pollerTimer
           /\ (op = "finish" /\ StorageError /\ op' = "tick")
                => (outcome' = "started" /\ isPolling'
                    /\ Cardinality(DOMAIN cycle') = 1
                    /\ \A c \in DOMAIN cycle' : AllPending(cycle'[c])) ]_vars

C6_Witness ==
    /\ op = "finish"
    /\ outcome = "insert_error"
    /\ batch # <<>>
    /\ pollerTimer
    /\ ~isPolling
    /\ calls < MaxCalls

\* C16: all records a poll cycle hands to the store carry one timestamp, the
\* clock's value when the cycle builds its batch after the merge, and not a
\* time stated by a source; the records the cycle inserts are these.
C16_OneIngestTimestamp ==
    Handed =>
        /\ \A k \in 1..Len(batch) : batch[k].ts = now
        /\ outcome = "prune_error" => db = pre \o batch
        /\ outcome = "complete" => db = PruneOldPositions(pre \o batch, RETENTION_SECONDS, now)

C16_Witness ==
    /\ Handed
    /\ outcome = "complete"
    /\ now > Now0
    /\ Len(batch) = 2
    /\ batch[1].icao24 = "b"
    /\ batch[2].icao24 = "a"
    /\ batch[1].ts = batch[2].ts
    /\ Len(db) = 2

\* C17: every record of a batch a poll cycle hands to the store has a
\* non-empty lower-case string identity and a latitude and a longitude; an
\* observation without one of them is never in the batch, and one at latitude
\* or longitude 0 is kept.
C17_BatchRecordsValid ==
    Handed =>
        /\ \A k \in 1..Len(batch) :
                /\ batch[k].icao24 \notin {NullStr, NumHex, ""}
                /\ ToLowerCase(batch[k].icao24) = batch[k].icao24
                /\ batch[k].lat # Null
                /\ batch[k].lon # Null
        /\ (\E i \in Tiles : Succeeded(res[i]) /\ \E j \in 1..Len(res[i].value) : res[i].value[j] = B1)
                => \E k \in 1..Len(batch) : batch[k].icao24 = "b" /\ batch[k].lat = 0 /\ batch[k].lon = 0

C17_Witness ==
    /\ Handed
    /\ res[1].value = <<E1, A3>>
    /\ res[2].value = <<B1, A1>>
    /\ Len(batch) = 2
    /\ batch[1].lat = 0
    /\ batch[2].icao24 = "a"
    /\ batch[2].alt = 100

\* C19: the store changes only in the step in which a cycle runs on from its
\* await, and that step is taken only when every tile fetch of the cycle has
\* settled, fulfilled or rejected: nothing is merged or inserted while a fetch
\* of the cycle is pending.
C19_InsertAfterAllSettled ==
    [][ /\ db' # db => op' = "finish"
        /\ op' = "finish" =>
                /\ \E c \in DOMAIN cycle :
                        /\ c \notin DOMAIN cycle'
                        /\ res' = cycle[c].res
                        /\ Len(cycle[c].order) = NTiles
                /\ \A i \in Tiles : res'[i].status \in {"fulfilled", "rejected"} ]_vars

C19_Witness ==
    /\ Handed
    /\ db # pre
    /\ res[1].status = "rejected"
    /\ res[2].status = "fulfilled"
    /\ res[2].value = <<B1, A1>>

\* C20: every poll cycle that is not skipped hands its batch to the store and
\* then prunes: unless the storage fails, the cycle ends with the table being
\* what it was plus the batch, without the records older than now - 86400.
C20_EveryCycleInsertsAndPrunes ==
    (op = "finish" /\ ~StorageError) =>
        /\ outcome = "complete"
        /\ db = PruneOldPositions(pre \o batch, RETENTION_SECONDS, now)
        /\ \A k \in 1..Len(db) : db[k].ts >= now - 86400

\* C23: when the first observation of an aircraft in tile order lacks a
\* latitude or a longitude and a later tile returns an observation of it that
\* has both, the batch holds one record of the aircraft, that of the earliest
\* observation that has both: the incomplete observation is dropped before
\* the deduplication and does not take the identity.
C23_InvalidDoesNotClaimIdentity ==
    (op = "finish" /\ outcome # "merge_error") =>
        \A a \in FeedIds :
            LET Pall == Occurrences(res, a, FALSE)
                Pc == Occurrences(res, a, TRUE)
            IN  (Pc # {} /\ Earliest(Pall) \notin Pc /\ Earliest(Pall)[1] < Earliest(Pc)[1])
                    => /\ Cardinality(RecordsOf(batch, a)) = 1
                       /\ \A k \in RecordsOf(batch, a) :
                            batch[k] = PositionRow(a, res[Earliest(Pc)[1]].value[Earliest(Pc)[2]], now)

C23_Witness ==
    /\ op = "finish"
    /\ outcome = "complete"
    /\ res[1].value = <<E1, A3>>
    /\ res[2].value = <<A1>>
    /\ Len(batch) = 1
    /\ batch[1].alt = 100
    /\ batch[1].lat = 10

\* C24: provided every tile fetch settles in the end, a cycle that set the
\* in-flight flag clears it in the end, however the fetches and the store
\* writes turn out: the flag is never left set for ever.
C24_FlagEventuallyCleared == isPolling ~> ~isPolling

C24_Witness ==
    /\ op = "finish"
    /\ outcome = "merge_error"
    /\ ~isPolling
    /\ cycle = <<>>
    /\ \E i \in Tiles : res[i].status = "rejected"

\* C25: at most one interval timer is armed in every reachable state, the
\* handle is set exactly when one is, and a startGlobalPoller call made while
\* the handle is set arms no timer and invokes no pollOnce: it changes
\* nothing.
C25_StartIdempotent ==
    /\ [](timers <= 1 /\ (pollerTimer <=> timers = 1))
    /\ [][ (pollerTimer /\ op' = "start")
            => (outcome' = "already"
                /\ UNCHANGED <<pollerTimer, timers, isPolling, cycle, calls, db>>) ]_vars

C25_Witness ==
    /\ op = "start"
    /\ outcome = "already"
    /\ timers = 1
    /\ pollerTimer
    /\ ~isPolling
    /\ calls < MaxCalls

\* C26: once stopGlobalPoller has returned and until startGlobalPoller is
\* called again no timer is armed and no poll cycle begins; a cycle in flight
\* at the stop is not cancelled, its fetches settle and it runs its insert
\* and prune.
C26_NoCycleAfterStop ==
    /\ [](~pollerTimer => timers = 0)
    /\ [][ /\ op' = "stop" => (~pollerTimer' /\ timers' = 0 /\ cycle' = cycle /\ isPolling' = isPolling)
           /\ (~pollerTimer /\ op' # "start")
                => (calls' = calls /\ DOMAIN cycle' \subseteq DOMAIN cycle /\ op' # "tick") ]_vars

C26_Witness ==
    /\ op = "finish"
    /\ outcome = "complete"
    /\ ~pollerTimer
    /\ timers = 0
    /\ batch # <<>>
    /\ db # <<>>

----------------------------------------------------------------------------
(* Properties of the store *)

Rows(table) == {table[k] : k \in 1..Len(table)}

\* C7: insertPositions is all or nothing: it either returns with the whole
\* batch appended to what the table held, or throws with the table as it was;
\* it throws whenever a record of the batch lacks a required field.
C7_InsertAllOrNothing ==
    op = "insert" =>
        /\ \/ (outcome = "ok" /\ db = pre \o batch)
           \/ (outcome = "thrown" /\ db = pre)
        /\ (\E k \in 1..Len(batch) : ~NotNullOK(batch[k])) => outcome = "thrown"

C7_Witness ==
    /\ op = "insert"
    /\ outcome = "thrown"
    /\ pre # <<>>
    /\ Len(batch) = 2
    /\ NotNullOK(batch[1])
    /\ ~NotNullOK(batch[2])

\* The rows of aircraft a inside the box and the age window of the query `arg`.
InWindow(table, a) ==
    { k \in 1..Len(table) :
        /\ table[k].icao24 = a
        /\ Between(table[k].lat, arg.lamin, arg.lamax)
        /\ Between(table[k].lon, arg.lomin, arg.lomax)
        /\ table[k].ts >= now - arg.maxAge }

\* C8: queryLatestInBbox returns exactly one record for every aircraft that has
\* a record inside the box and the age window, a most recent one of these (also
\* when several records share the greatest timestamp), nothing for any other
\* aircraft, and the result is sorted by identity.
C8_LatestExactlyOnePerAircraft ==
    op = "latest" =>
        /\ \A a \in FeedIds :
            LET W == InWindow(db, a)
            IN  IF W = {}
                THEN RecordsOf(ret, a) = {}
                ELSE /\ Cardinality(RecordsOf(ret, a)) = 1
                     /\ \A k \in RecordsOf(ret, a) :
                            /\ ret[k] \in Rows(db)
                            /\ \A j \in W : db[j].ts <= ret[k].ts
        /\ \A k \in 1..(Len(ret) - 1) : Rank(ret[k].icao24) <= Rank(ret[k + 1].icao24)

\* The records of aircraft a were inserted at strictly increasing timestamps,
\* and all of them are inside the box and the age window of the query `arg`.
IncreasingInWindow(table, a) ==
    /\ RecordsOf(table, a) # {}
    /\ RecordsOf(table, a) = InWindow(table, a)
    /\ \A j, k \in RecordsOf(table, a) : j < k => table[j].ts < table[k].ts

\* C9: when the records of an aircraft were inserted at strictly increasing
\* timestamps and all lie inside the box and the age window, queryLatestInBbox
\* returns exactly one record of that aircraft, the one with the greatest
\* timestamp.
C9_RoundTripLatest ==
    op = "latest" =>
        \A a \in FeedIds :
            IncreasingInWindow(db, a) =>
                /\ Cardinality(RecordsOf(ret, a)) = 1
                /\ \A k \in RecordsOf(ret, a) : ret[k] = db[SetMax(RecordsOf(db, a))]

C9_Witness ==
    /\ op = "latest"
    /\ IncreasingInWindow(db, "b")
    /\ Cardinality(RecordsOf(db, "b")) >= 2
    /\ Cardinality(RecordsOf(ret, "b")) = 1

\* C10: pruneOldPositions(maxAgeSeconds) removes the records whose timestamp is
\* less than now - maxAgeSeconds and no other: the table is what it was, in the
\* same order, without them. With maxAgeSeconds = 86400 a record at now - 90000
\* is removed, records at now - 86400 and at now - 1000 stay.
C10_PruneExactlyOlder ==
    op = "prune" =>
        /\ db = SelectSeq(pre, LAMBDA r : r.ts >= now - arg.maxAge)
        /\ arg.maxAge = 86400 =>
            \A r \in Rows(pre) :
                /\ r.ts = now - 90000 => r \notin Rows(db)
                /\ r.ts \in {now - 86400, now - 1000} => r \in Rows(db)

C10_Witness ==
    /\ op = "prune"
    /\ arg.maxAge = 86400
    /\ \E r \in Rows(pre) : r.ts = now - 90000
    /\ \E r \in Rows(pre) : r.ts = now - 86400
    /\ \E r \in Rows(pre) : r.ts = now - 1000
    /\ Len(db) = 2

\* The rows of the table that queryTrail(arg.icao24, arg.sinceTs) has to return.
TrailMatches(table) ==
    { k \in 1..Len(table) :
        /\ table[k].icao24 = arg.icao24
        /\ table[k].ts >= (IF arg.sinceTs # Null THEN arg.sinceTs ELSE now - 86400) }

\* C11: queryTrail(aircraftId, sinceTs) returns every stored record of that
\* aircraft with timestamp >= sinceTs (the last 24 h when sinceTs is left out),
\* each once, no record of another aircraft or with an older timestamp,
\* whatever the position, and in non-decreasing timestamp order whatever the
\* insertion order.
C11_TrailCompleteAndOrdered ==
    op = "trail" =>
        LET M == TrailMatches(db)
        IN  /\ Len(ret) = Cardinality(M)
            /\ \E f \in [1..Len(ret) -> M] :
                    /\ \A i, j \in 1..Len(ret) : i # j => f[i] # f[j]
                    /\ \A i \in 1..Len(ret) : ret[i] = TrailPoint(db[f[i]])
            /\ \A i \in 1..(Len(ret) - 1) : ret[i].ts <= ret[i + 1].ts

C11_Witness ==
    /\ op = "trail"
    /\ arg.icao24 = "b"
    /\ Len(db) = 3
    /\ \A k \in 1..3 : db[k].icao24 = "b"
    /\ db[1].ts > db[3].ts
    /\ db[3].ts > db[2].ts
    /\ \E k \in 1..3 : db[k].lat = 50
    /\ Len(ret) = 3
    /\ ret[1].ts < ret[2].ts
    /\ ret[2].ts < ret[3].ts

\* s is t with some elements left out.
RECURSIVE IsSubseq(_, _)
IsSubseq(s, t) ==
    IF s = <<>> THEN TRUE
    ELSE IF t = <<>> THEN FALSE
    ELSE IF Head(s) = Head(t) THEN IsSubseq(Tail(s), Tail(t))
    ELSE IsSubseq(s, Tail(t))

\* C18: the position store is append-only: insertPositions, queryLatestInBbox,
\* queryTrail and getPositionsDbStats leave every stored record in place and
\* as it is (insertPositions only appends), pruneOldPositions is the only
\* operation that removes records, and it leaves the records it keeps as they
\* are and in their order.
C18_AppendOnly ==
    [][ /\ op' \in {"insert", "latest", "trail", "stats"}
            => (Len(db') >= Len(db) /\ SubSeq(db', 1, Len(db)) = db)
        /\ op' \in {"latest", "trail", "stats"} => db' = db
        /\ op' = "prune" => IsSubseq(db', db) ]_vars

C18_Witness ==
    /\ op = "insert"
    /\ outcome = "ok"
    /\ batch # <<>>
    /\ \E j \in 1..Len(pre) : \E k \in 1..Len(batch) :
            pre[j].icao24 = batch[k].icao24 /\ pre[j].ts = batch[k].ts
    /\ Len(db) = Len(pre) + Len(batch)

----------------------------------------------------------------------------
(* Properties of the sighting aggregator *)

\* The episodes of aircraft a.
EpisodesOf(table, a) == {k \in 1..Len(table) : table[k].icao24 = a}

\* The most recent episode of aircraft a, which has one.
MostRecent(table, a) ==
    CHOOSE k \in EpisodesOf(table, a) :
        \A j \in EpisodesOf(table, a) : table[j].last_seen <= table[k].last_seen

\* The planes of a batch that are of aircraft a.
PlanesOf(planes, a) == {k \in 1..Len(planes) : planes[k].icao24 = a}

\* C12: an upsert of an aircraft at time now (the aircraft once in the batch)
\* extends the aircraft's most recent episode iff that episode's last_seen >
\* now - 600: last_seen becomes now, first_seen stays, no episode is created,
\* the aircraft's other episodes stay as they are. Otherwise it creates one new
\* episode with first_seen = last_seen = now and leaves the earlier episodes as
\* they are. So two episodes of one aircraft are always at least 600 s apart.
C12_ExtendIffRecent ==
    /\ [](\A j, k \in 1..Len(sightings) :
            (j < k /\ sightings[j].icao24 = sightings[k].icao24)
                => sightings[k].first_seen >= sightings[j].last_seen + 600)
    /\ [][ (op' = "upsert" /\ outcome' = "ok") =>
            \A a \in FeedIds :
                Cardinality(PlanesOf(batch', a)) = 1 =>
                    LET E == EpisodesOf(sightings, a)
                        E2 == EpisodesOf(sightings', a)
                    IN  IF E # {} /\ sightings[MostRecent(sightings, a)].last_seen > now - 600
                        THEN LET m == MostRecent(sightings, a)
                             IN  /\ E2 = E
                                 /\ sightings'[m].last_seen = now
                                 /\ sightings'[m].first_seen = sightings[m].first_seen
                                 /\ \A k \in E \ {m} : sightings'[k] = sightings[k]
                        ELSE /\ Cardinality(E2) = Cardinality(E) + 1
                             /\ \A k \in E : sightings'[k] = sightings[k]
                             /\ \A k \in E2 \ E :
                                    /\ k > Len(sightings)
                                    /\ sightings'[k].first_seen = now
                                    /\ sightings'[k].last_seen = now ]_vars

C12_Witness ==
    /\ op = "upsert"
    /\ outcome = "ok"
    /\ now = Now0 + 1300
    /\ Len(sightings) = 2
    /\ EpisodesOf(sightings, "a") = {1, 2}
    /\ sightings[1].first_seen = Now0
    /\ sightings[1].last_seen = Now0 + 500
    /\ sightings[2].first_seen = Now0 + 1300

\* The episodes of aircraft a that are active at time t.
ActiveAt(table, a, t) == {k \in EpisodesOf(table, a) : table[k].last_seen > t - 600}

\* C13: after every upsertSightings call every aircraft has at most one active
\* episode: at most one whose last_seen is later than 600 s before the time of
\* the call.
C13_AtMostOneActiveEpisode ==
    op = "upsert" => \A a \in FeedIds : Cardinality(ActiveAt(sightings, a, now)) <= 1

C13_Witness ==
    /\ op = "upsert"
    /\ outcome = "ok"
    /\ EpisodesOf(sightings, "a") = {1, 2}
    /\ sightings[1].last_seen = now - 600
    /\ ActiveAt(sightings, "a", now) = {2}

\* The least and the greatest element of a set of numbers, Null when empty.
LeastOf(S) == IF S = {} THEN Null ELSE SetMin(S)
GreatestOf(S) == IF S = {} THEN Null ELSE SetMax(S)

\* C14: in every episode min_alt is the minimum and max_alt the maximum of the
\* non-null altitudes observed so far in it, and max_speed the maximum of the
\* non-null speeds; they are null while nothing non-null was observed, and an
\* observation with a null altitude or speed leaves them as they are.
C14_RunningAggregates ==
    /\ Len(observed) = Len(sightings)
    /\ \A k \in 1..Len(sightings) :
            /\ sightings[k].min_alt = LeastOf(observed[k].alts)
            /\ sightings[k].max_alt = GreatestOf(observed[k].alts)
            /\ sightings[k].max_speed = GreatestOf(observed[k].vels)

C14_Witness ==
    /\ op = "upsert"
    /\ outcome = "ok"
    /\ batch = <<SA2, SA3>>
    /\ Len(sightings) = 1
    /\ sightings[1].first_seen < now
    /\ observed[1].alts = {1000, 3000}
    /\ sightings[1].min_alt = 1000
    /\ sightings[1].max_alt = 3000

\* The batch without the planes that have no icao24.
WithIdentity(planes) == SelectSeq(planes, LAMBDA p : p.icao24 # NullStr)

\* C15: when a batch holds a plane without icao24, only that plane is skipped:
\* the call returns, and the table is what the batch without that plane gives.
C15_MalformedRecordSkipped ==
    [][ (op' = "upsert" /\ \E k \in 1..Len(batch') : batch'[k].icao24 = NullStr)
            => /\ outcome' = "ok"
               /\ sightings' = UpsertSightings(sightings, WithIdentity(batch'), now).table ]_vars

\* Aircraft a has an active episode at time t: the upsert of a at t extends it.
HasActive(table, a, t) ==
    /\ EpisodesOf(table, a) # {}
    /\ table[MostRecent(table, a)].last_seen > t - 600

\* The last plane of aircraft a in a batch that holds one.
LastPlaneOf(planes, a) == planes[SetMax(PlanesOf(planes, a))]

\* C21: an upsert that extends an episode overwrites the episode's lat and lon
\* with the values of the observation (the aircraft's last one in the batch),
\* whatever they are: when that observation has no lat or lon the stored
\* position becomes null, it is not kept from the observation before.
C21_PositionOverwritten ==
    [][ (op' = "upsert" /\ outcome' = "ok") =>
            \A a \in FeedIds :
                (PlanesOf(batch', a) # {} /\ HasActive(sightings, a, now)) =>
                    LET m == MostRecent(sightings, a)
                        p == LastPlaneOf(batch', a)
                    IN  /\ sightings'[m].lat = p.lat
                        /\ sightings'[m].lon = p.lon ]_vars

C21_Witness ==
    /\ op = "upsert"
    /\ outcome = "ok"
    /\ batch = <<SA2>>
    /\ Len(sightings) = 1
    /\ sightings[1].first_seen < now
    /\ sightings[1].max_alt # Null
    /\ sightings[1].lat = Null
    /\ sightings[1].lon = Null

\* A callsign that is neither null nor empty nor made of spaces only.
NonEmptyCallsign(cs) == cs # NullCs /\ \E i \in 1..Len(cs) : cs[i] # " "

\* The callsigns an observation may carry: none, the empty one, spaces, and
\* callsigns with spaces before, after and inside.
CallsignInputs ==
    {NullCs, <<>>, <<" ", " ">>, <<"V">>, <<" ", "V">>, <<"V", " ", "W", " ">>}

\* The planes of aircraft a in a batch whose callsign is non-empty.
NamedPlanesOf(planes, a) == {k \in PlanesOf(planes, a) : NonEmptyCallsign(planes[k].callsign)}

\* C22: an upsert that extends an episode replaces the episode's callsign (by
\* the trimmed callsign) only when the observation's callsign is non-empty
\* after trimming; a null, empty or whitespace-only callsign leaves the stored
\* callsign as it is. In a batch the aircraft's last observation with a
\* non-empty callsign decides. The same holds of the update of any stored
\* episode by an observation with any of the callsigns CallsignInputs.
C22_CallsignReplacedOnlyWhenNonEmpty ==
    /\ [](\A k \in 1..Len(sightings) : \A cs \in CallsignInputs :
            UpdateRow(sightings[k], Plane(sightings[k].icao24, cs, NullStr, Null, Null, Null, Null), now).callsign
                = IF NonEmptyCallsign(cs) THEN Trim(cs) ELSE sightings[k].callsign)
    /\ [][ (op' = "upsert" /\ outcome' = "ok") =>
            \A a \in FeedIds :
                (PlanesOf(batch', a) # {} /\ HasActive(sightings, a, now)) =>
                    LET m == MostRecent(sightings, a)
                        N == NamedPlanesOf(batch', a)
                    IN  sightings'[m].callsign =
                            IF N = {} THEN sightings[m].callsign
                            ELSE Trim(batch'[SetMax(N)].callsign) ]_vars

C22_Witness ==
    /\ op = "upsert"
    /\ outcome = "ok"
    /\ batch = <<SA2>>
    /\ Len(sightings) = 1
    /\ sightings[1].first_seen < now
    /\ sightings[1].last_seen = now
    /\ sightings[1].min_alt = 1000
    /\ sightings[1].callsign = <<"U">>

\* The non-null altitudes and speeds of the planes of aircraft a in a batch.
AltsOf(planes, a) == {planes[k].alt : k \in PlanesOf(planes, a)} \ {Null}
VelsOf(planes, a) == {planes[k].vel : k \in PlanesOf(planes, a)} \ {Null}

\* C27: when a batch holds the same aircraft more than once and the aircraft
\* has no active episode, the call creates exactly one episode for it and
\* leaves its earlier episodes as they are: the first record creates the
\* episode (first_seen = last_seen = now, its origin country) and the later
\* records update it, so that its altitude and speed bounds are those of all
\* the aircraft's records of the batch, its position that of the last one and
\* its callsign that of the last one with a non-empty callsign.
C27_DuplicateInBatchOneEpisode ==
    [][ (op' = "upsert" /\ outcome' = "ok") =>
            \A a \in FeedIds :
                (Cardinality(PlanesOf(batch', a)) >= 2 /\ ~HasActive(sightings, a, now)) =>
                    LET E == EpisodesOf(sightings, a)
                        E2 == EpisodesOf(sightings', a)
                        first == batch'[SetMin(PlanesOf(batch', a))]
                        last == LastPlaneOf(batch', a)
                        N == NamedPlanesOf(batch', a)
                    IN  /\ Cardinality(E2) = Cardinality(E) + 1
                        /\ \A k \in E : sightings'[k] = sightings[k]
                        /\ \A k \in E2 \ E :
                            /\ k > Len(sightings)
                            /\ sightings'[k].first_seen = now
                            /\ sightings'[k].last_seen = now
                            /\ sightings'[k].origin_country = OriginCountry(first.origin_country)
                            /\ sightings'[k].min_alt = LeastOf(AltsOf(batch', a))
                            /\ sightings'[k].max_alt = GreatestOf(AltsOf(batch', a))
                            /\ sightings'[k].max_speed = GreatestOf(VelsOf(batch', a))
                            /\ sightings'[k].lat = last.lat
                            /\ sightings'[k].lon = last.lon
                            /\ sightings'[k].callsign =
                                    IF N = {} THEN NullCs ELSE Trim(batch'[SetMax(N)].callsign) ]_vars

C27_Witness ==
    /\ op = "upsert"
    /\ outcome = "ok"
    /\ batch = <<SA1, SA3>>
    /\ EpisodesOf(sightings, "a") = {1, 2}
    /\ sightings[1].last_seen <= now - 600
    /\ sightings[2].first_seen = now
    /\ sightings[2].last_seen = now
    /\ sightings[2].min_alt = 1000
    /\ sightings[2].max_alt = 3000
    /\ sightings[2].origin_country = "US"

\* C28: after any sequence of upsertSightings calls at non-decreasing times
\* every episode has first_seen <= last_seen, min_alt null iff max_alt null,
\* and min_alt <= max_alt when both are non-null; and no call changes the
\* first_seen, the aircraft identity or the origin country of an episode that
\* exists.
C28_EpisodeInvariants ==
    /\ [](\A k \in 1..Len(sightings) :
            /\ sightings[k].first_seen <= sightings[k].last_seen
            /\ (sightings[k].min_alt = Null) <=> (sightings[k].max_alt = Null)
            /\ (sightings[k].min_alt # Null /\ sightings[k].max_alt # Null)
                    => sightings[k].min_alt <= sightings[k].max_alt)
    /\ [][ /\ Len(sightings') >= Len(sightings)
           /\ \A k \in 1..Len(sightings) :
                /\ sightings'[k].first_seen = sightings[k].first_seen
                /\ sightings'[k].icao24 = sightings[k].icao24
                /\ sightings'[k].origin_country = sightings[k].origin_country ]_vars

C28_Witness ==
    /\ op = "upsert"
    /\ outcome = "ok"
    /\ batch = <<SA3>>
    /\ Len(sightings) = 1
    /\ sightings[1].icao24 = "a"
    /\ sightings[1].origin_country = "US"
    /\ sightings[1].first_seen < sightings[1].last_seen
    /\ sightings[1].last_seen = now
    /\ sightings[1].min_alt < sightings[1].max_alt

====
